---------------------------- MODULE Spec2Model ----------------------------
(***************************************************************************)
(* projplan: the forward scheduler of scenario.py (Scenario.scheduleTasks) *)
(* and the piecewise parameter resolution of resources.py                  *)
(* (ResourcePool.parameters).                                              *)
(*                                                                         *)
(* Days are indices 0 .. nDays-1 into the timeline (pd.date_range, daily). *)
(* Quantities (capacity, effort, efficiency) are Python floats; they are   *)
(* modelled as binary fixed-point numbers with FracBits fractional bits:   *)
(* the integer x stands for x / Unit.  Sums and differences are exact, a   *)
(* product or quotient is rounded to the nearest representable value, ties *)
(* to even, as IEEE-754 does (at 2^-FracBits instead of 2^-1074).          *)
(***************************************************************************)
EXTENDS Integers, Sequences, FiniteSets, TLC

(***************************************************************************)
(* Bounds of the model.                                                    *)
(***************************************************************************)
FracBits == 7
MaxRuns  == 2
RLen     == 4

Unit == 2 ^ FracBits

(***************************************************************************)
(* Float arithmetic.                                                       *)
(***************************************************************************)
\* np.nan: the value of a day no constraint has marked
NaN == -1

\* n / d rounded to the nearest integer, ties to even (n >= 0, d > 0)
RoundDiv(n, d) ==
    LET q == n \div d
        r == n % d
    IN  IF 2 * r < d THEN q
        ELSE IF 2 * r > d THEN q + 1
        ELSE IF q % 2 = 0 THEN q ELSE q + 1

\* float product a * b of two non-negative fixed-point numbers
Mul(a, b) == RoundDiv(a * b, Unit)

\* float quotient a / k of a fixed-point number by an integer count
DivCount(a, k) == RoundDiv(a, k)

Min2(a, b) == IF a <= b THEN a ELSE b

\* min([a, b, c])
Min3(a, b, c) == Min2(a, Min2(b, c))

(***************************************************************************)
(* resources.py: Constraint.  A constraint is [hasStart, start, hasEnd,    *)
(* end, eff, res]: one tuple of initParams, (start, end, efficiency,       *)
(* resources, parallelizability); start/end None is hasStart/hasEnd FALSE. *)
(***************************************************************************)
InfiniteStart == -1000
InfiniteEnd   == 1000

CStart(c) == IF c.hasStart THEN c.start ELSE InfiniteStart
CEnd(c)   == IF c.hasEnd THEN c.end ELSE InfiniteEnd

\* Constraint(None, None, value): what a constant initParams becomes
Always(eff, res) ==
    [hasStart |-> FALSE, start |-> 0, hasEnd |-> FALSE, end |-> 0,
     eff |-> eff, res |-> res]

Between(s, e, eff, res) ==
    [hasStart |-> TRUE, start |-> s, hasEnd |-> TRUE, end |-> e,
     eff |-> eff, res |-> res]

From(s, eff, res) ==
    [hasStart |-> TRUE, start |-> s, hasEnd |-> FALSE, end |-> 0,
     eff |-> eff, res |-> res]

Until(e, eff, res) ==
    [hasStart |-> FALSE, start |-> 0, hasEnd |-> TRUE, end |-> e,
     eff |-> eff, res |-> res]

(***************************************************************************)
(* resources.py: ResourcePool.parameters, one column.  A series is a       *)
(* function from the days of the timeline to values.                       *)
(***************************************************************************)
Days(n) == 0 .. (n - 1)

\* np.full(self.timeline.shape, np.nan)
EmptySeries(n) == [d \in Days(n) |-> NaN]

\* the mask (index >= constraint.start) & (index <= constraint.end)
Covers(c, d) == d >= CStart(c) /\ d <= CEnd(c)

\* self._parameters.loc[mask, column] = constraint.value
ApplyConstraint(s, c, v) ==
    [d \in DOMAIN s |-> IF Covers(c, d) THEN v ELSE s[d]]

\* Series.ffill(): an undefined day takes the value of the day before it
FfillKeepsGaps(s) == s
Ffill(s) ==
    LET f[d \in DOMAIN s] ==
            IF s[d] # NaN THEN s[d]
            ELSE IF d = 0 THEN NaN ELSE f[d - 1]
    IN  f

\* Series.bfill(): a still undefined day takes the value of the day after it
Bfill(s) ==
    LET n == Cardinality(DOMAIN s)
        RECURSIVE B(_)
        B(d) == IF s[d] # NaN THEN s[d]
                ELSE IF d = n - 1 THEN NaN ELSE B(d + 1)
    IN  [d \in DOMAIN s |-> B(d)]

\* the values of one column of a list of constraints
ColValue(c, col) == IF col = "efficiency" THEN c.eff ELSE c.res

RECURSIVE ApplyAll(_, _, _, _)
ApplyAll(s, cons, col, i) ==
    IF i > Len(cons) THEN s
    ELSE ApplyAll(ApplyConstraint(s, cons[i], ColValue(cons[i], col)), cons, col, i + 1)

\* one column of self._parameters for initParams = cons on an n-day timeline
Resolve(cons, col, n) == Bfill(Ffill(ApplyAll(EmptySeries(n), cons, col, 1)))


(***************************************************************************)
(* Task numbers and blocking patterns.  A task number 'a.b.c' is the       *)
(* sequence <<a, b, c>> of its digits; a blocking pattern is a sequence of *)
(* digits too, <<>> for the empty string the raw backend fills in and      *)
(* NoPattern for the 'NONE' the MRD backend fills in.                      *)
(***************************************************************************)
\* 'NONE': no digit of a task number is 0
NoPattern == <<0>>

\* Series.str.contains(pattern) on one task number: the pattern occurs in it
ContainsNever(number, pattern) == FALSE
Contains(number, pattern) ==
    \E i \in 0 .. (Len(number) - Len(pattern)) :
        SubSeq(number, i + 1, i + Len(pattern)) = pattern

(***************************************************************************)
(* State.  cfg is the Scenario as constructed (its pools with their        *)
(* resolved parameters, timeline, task tables); the other variables are    *)
(* what scheduleTasks creates and mutates.  Pools are 1 .. NP in the order *)
(* of Scenario.focusareas; the roadmap has one more column, UnusedCol, for *)
(* the pool named 'unused' when showUnusedResources is set.                *)
(***************************************************************************)
VARIABLES
    cfg,            \* the constructed Scenario
    pc,             \* position in scheduleTasks
    runs,           \* number of scheduleTasks calls so far
    dateIdx,        \* _scheduleForward: dateIdx
    passIdx,        \* position of the for loop over projectnames
    backlogIdx,     \* _scheduleSingleDate: backlogIdx
    roadmap,        \* self._roadmap[day][column]
    backlogs,       \* self._backlogs[pool]: the task indices still in the backlog
    rem,            \* self._backlogs[pool].loc[task, pool]: remaining effort
    schedRes,       \* self._schedulableResources[pool][day]
    remainingRes,   \* self._remainingResources[day]
    taskDeadlines,  \* self._mrdTaskDeadlines[task][pool]
    groupDeadlines, \* self._mrdTaskgroupDeadlines[group][pool]
    applied,        \* history: work applied so far to [pool][task] in this run
    firstRun,       \* history: the outputs of the previous scheduleTasks call
    synced,         \* the pools' timelineStart/End are the scenario's
    warned,         \* the reset printed "ERROR: Not enough resources ..."
    stalled,        \* history: the pools whose loop hit a blocked task today
    maxResDays,     \* the days of self._maxResourcesTimeline, 0 before it exists
    passWork,       \* history: work given to each task in the current call
                    \* of _scheduleSingleDate
    rcons,          \* parameter resolution: the constraints (initParams)
    rseries,        \* parameter resolution: the column being built
    rpc,            \* parameter resolution: "mark", "ffill", "bfill", "resolved"
    rnext,          \* parameter resolution: the next constraint to apply
    plStart,        \* a pool on its own: timelineStart
    plEnd,          \* a pool on its own: timelineEnd
    pcache,         \* a pool on its own: self._parameters, if it exists (has)
    lastRead        \* history: what the last read of parameters returned

schedVars == <<cfg, pc, runs, dateIdx, passIdx, backlogIdx, roadmap, backlogs, rem,
               schedRes, remainingRes, taskDeadlines, groupDeadlines, applied,
               firstRun, synced, warned, stalled, maxResDays, passWork>>

poolVars == <<plStart, plEnd, pcache, lastRead>>

resolveVars == <<rcons, rseries, rpc, rnext, poolVars>>

vars == <<schedVars, resolveVars>>

NP        == Len(cfg.pools)
Pools     == 1 .. NP
NT        == Len(cfg.tasks)
Tasks     == 1 .. NT
Groups    == 1 .. cfg.nGroups
Timeline  == Days(cfg.nDays)
UnusedCol == 0
Columns   == IF cfg.showUnused THEN Pools \cup {UnusedCol} ELSE Pools

\* no date recorded: the None of np.empty(..., dtype=pd.DatetimeIndex)
NoDate == NaN

(***************************************************************************)
(* timehandling.py and the pools' resolved series.                         *)
(***************************************************************************)
\* dateIdx.weekday(): Monday is 0
Weekday(d) == (cfg.startWeekday + d) % 7

\* fa.resources, fa.efficiency: columns of ResourcePool.parameters, resolved
\* for the scenario's timeline when the pool is first asked for them
Resources(p)  == cfg.pools[p].res
Efficiency(p) == cfg.pools[p].eff

\* fa.basecost
Basecost(p) == [d \in Timeline |-> cfg.pools[p].basecost]

\* the days of the pool "Max. Resources": it is created by the first read of
\* Scenario.maxResources, with the bounds the scenario has then, and kept
MaxResDaysNow == IF maxResDays = 0 THEN cfg.nDays ELSE maxResDays

\* Scenario.maxResources
MaxResources == [d \in Days(MaxResDaysNow) |-> cfg.maxRes]

\* Scenario.schedulableFocusareas, the default of projectnames
Projectnames == cfg.projectnames
ProjSet      == {Projectnames[i] : i \in DOMAIN Projectnames}

\* the value the loop variable projectname keeps after `for projectname in projectnames`
LastProject == Projectnames[Len(Projectnames)]

\* the columns of a task: effort and blocking pattern per pool
Effort(t, p)  == cfg.tasks[t].effort[p]
Pattern(t, p) == cfg.tasks[t].pattern[p]
Number(t)     == cfg.tasks[t].number

RECURSIVE SumOver(_, _)
SumOver(f, S) ==
    IF S = {} THEN 0
    ELSE LET x == CHOOSE y \in S : TRUE IN f[x] + SumOver(f, S \ {x})

(***************************************************************************)
(* scenario.py: _resetRoadmapDatastructures and _resetRemainingRessources  *)
(***************************************************************************)
\* weekday() >= 5 or dateIdx in self.holidays
NoWorkSundayOnly(d) == Weekday(d) > 5 \/ d \in cfg.holidays
NoWork(d) == Weekday(d) >= 5 \/ d \in cfg.holidays

\* self._roadmap: basecost + resources per focus area ('unused' has neither)
NewRoadmap ==
    [d \in Timeline |->
        [c \in Columns |->
            IF c = UnusedCol THEN 0 ELSE Basecost(c)[d] + Resources(c)[d]]]

\* the rows of the task table with a nonzero effort for the pool, in table order
BacklogKeepsOld(p) ==
    IF runs = 0 THEN SelectSeq([t \in Tasks |-> t], LAMBDA t : Effort(t, p) # 0)
    ELSE backlogs[p]
BacklogAllRows(p) == [t \in Tasks |-> t]
InitialBacklog(p) == SelectSeq([t \in Tasks |-> t], LAMBDA t : Effort(t, p) # 0)

\* self._schedulableResources: the pool's resources, 0 on weekends and holidays
NewSchedRes ==
    [p \in ProjSet |-> [d \in Timeline |-> IF NoWork(d) THEN 0 ELSE Resources(p)[d]]]

\* max(0, maxResources - sum over the focus areas of resources + basecost)
ClampNone(x) == x
Clamp(x) == IF x < 0 THEN 0 ELSE x

\* maxResources minus every focus area's resources and basecost
RawRemaining(d) ==
    MaxResources[d] - SumOver([p \in Pools |-> Resources(p)[d] + Basecost(p)[d]], Pools)

NewRemaining == [d \in Timeline |-> Clamp(RawRemaining(d))]

EmptyTaskDeadlines  == [t \in Tasks |-> [p \in ProjSet |-> NoDate]]
EmptyGroupDeadlines == [g \in Groups |-> [p \in ProjSet |-> NoDate]]

\* the outputs of a run: roadmap, task deadlines, task-group deadlines
Outputs == [roadmap |-> roadmap, tasks |-> taskDeadlines, groups |-> groupDeadlines]

\* what the zeroing of the weekends and holidays leaves of the pool's own
\* resources series: it acts on the deep copy self._schedulableResources
PoolSeriesAfterShared(res) == [d \in DOMAIN res |-> IF NoWork(d) THEN 0 ELSE res[d]]
PoolSeriesAfter(res) == res

\* the Scenario after _resetRoadmapDatastructures
CfgAfterReset ==
    [cfg EXCEPT !.pools =
        [i \in DOMAIN cfg.pools |->
            IF i \in ProjSet
            THEN [cfg.pools[i] EXCEPT !.res = PoolSeriesAfter(cfg.pools[i].res)]
            ELSE cfg.pools[i]]]

\* scheduleTasks up to the first iteration of _scheduleForward
ScheduleTasks ==
    /\ pc \in {"Idle", "Done"}
    /\ cfg.mrdOk
    /\ runs < MaxRuns
    /\ MaxResDaysNow = cfg.nDays
    /\ maxResDays' = MaxResDaysNow
    /\ runs' = runs + 1
    /\ firstRun' = IF pc = "Done" THEN Outputs ELSE firstRun
    /\ roadmap' = NewRoadmap
    /\ groupDeadlines' = EmptyGroupDeadlines
    /\ taskDeadlines' = EmptyTaskDeadlines
    /\ backlogs' = [p \in ProjSet |-> InitialBacklog(p)]
    /\ rem' = [p \in ProjSet |-> [t \in Tasks |-> Effort(t, p)]]
    /\ applied' = [p \in ProjSet |-> [t \in Tasks |-> 0]]
    /\ passWork' = [t \in Tasks |-> 0]
    /\ schedRes' = NewSchedRes
    /\ remainingRes' = NewRemaining
    /\ dateIdx' = 0
    /\ passIdx' = 1
    /\ backlogIdx' = 0
    /\ pc' = "FirstPass"
    /\ synced' = TRUE
    /\ warned' = (\E d \in Timeline : RawRemaining(d) < 0)
    /\ stalled' = {}
    /\ cfg' = CfgAfterReset
    /\ UNCHANGED resolveVars

(***************************************************************************)
(* scenario.py: _scheduleSingleDate, one iteration of its while loop per   *)
(* step.  CurPool is the projectname the enclosing for loop is at.         *)
(***************************************************************************)
CurPool == Projectnames[passIdx]

\* the while condition (the timeline is never empty)
LoopCond(p) == schedRes[p][dateIdx] > 0 /\ Len(backlogs[p]) > 0

\* mrdIdx = self._backlogs[projectname].index[backlogIdx]
CurTask(p) == backlogs[p][backlogIdx + 1]

\* any backlog still holds a task number that contains the task's pattern
Blocked(p, t) ==
    \E q \in ProjSet : \E i \in DOMAIN backlogs[q] :
        Contains(Number(backlogs[q][i]), Pattern(t, p))

\* workToDo = min([remaining effort, onePersonWork, maxActualWork])
WorkToDoUnlimited(p, t) ==
    Min2(rem[p][t], Mul(Efficiency(p)[dateIdx], schedRes[p][dateIdx]))
WorkToDo(p, t) ==
    LET onePersonWork == Efficiency(p)[dateIdx] * 1
        maxActualWork == Mul(Efficiency(p)[dateIdx], schedRes[p][dateIdx])
    IN  Min3(rem[p][t], onePersonWork, maxActualWork)

\* remaining effort of the task after the step
EffortAfterSnap(e, w) == IF e - w < Unit THEN 0 ELSE e - w
EffortAfter(e, w) == e - w

\* remaining capacity of the pool after the step: workToDo is taken off it
CapacityAfterFree(c, w) == c
CapacityAfter(c, w) == c - w

\* self._backlogs[projectname].drop(index=mrdIdx)
DropRequeues(b, t) == b \o <<t>>
Drop(b, t) == SelectSeq(b, LAMBDA x : x # t)

\* (backlogIdx + 1) if ((backlogIdx + 1) < len(backlog)) else 0
NextIdxStays(i, n) == i
NextIdx(i, n) == IF i + 1 < n THEN i + 1 ELSE 0

\* what the write of the remaining effort leaves of the shared task table:
\* the backlog is a deep copy of its rows, the table keeps its efforts
TableAfterShared(tasks, p, t, left) == [tasks EXCEPT ![t].effort[p] = left]
TableAfter(tasks, p, t, left) == tasks

AllocStep ==
    /\ pc \in {"FirstPass", "SecondPass"}
    /\ LoopCond(CurPool)
    /\ ~Blocked(CurPool, CurTask(CurPool))
    /\ LET p == CurPool
           t == CurTask(p)
           w == WorkToDo(p, t)
           left == EffortAfter(rem[p][t], w)
       IN  /\ rem' = [rem EXCEPT ![p][t] = left]
           /\ cfg' = [cfg EXCEPT !.tasks = TableAfter(cfg.tasks, p, t, left)]
           /\ applied' = [applied EXCEPT ![p][t] = @ + w]
           /\ passWork' = [passWork EXCEPT ![t] = @ + w]
           /\ schedRes' = [schedRes EXCEPT ![p][dateIdx] = CapacityAfter(@, w)]
           /\ IF left = 0
              THEN /\ taskDeadlines' = [taskDeadlines EXCEPT ![t][p] = dateIdx]
                   /\ backlogs' = [backlogs EXCEPT ![p] = Drop(@, t)]
                   /\ backlogIdx' = 0
              ELSE /\ backlogIdx' = NextIdx(backlogIdx, Len(backlogs[p]))
                   /\ UNCHANGED <<taskDeadlines, backlogs>>
    /\ UNCHANGED <<maxResDays, synced, warned, stalled, pc, runs, dateIdx, passIdx, roadmap, remainingRes,
                   groupDeadlines, firstRun, resolveVars>>

\* backlogIdx = 0 at the start of every call: the cursor is not carried over
PassStartIdxKept == backlogIdx
PassStartIdx == 0

\* the while loop ends (its condition fails, or the task at the cursor is
\* blocked): on to the next projectname, or to what follows the for loop
EndSingleDate ==
    /\ pc \in {"FirstPass", "SecondPass"}
    /\ IF LoopCond(CurPool) THEN Blocked(CurPool, CurTask(CurPool)) ELSE TRUE
    /\ stalled' = IF LoopCond(CurPool) THEN stalled \cup {CurPool} ELSE stalled
    /\ passWork' = [t \in Tasks |-> 0]
    /\ backlogIdx' = PassStartIdx
    /\ IF passIdx < Len(Projectnames)
       THEN /\ passIdx' = passIdx + 1
            /\ pc' = pc
       ELSE /\ passIdx' = 1
            /\ pc' = IF pc = "FirstPass" THEN "Redistribute" ELSE "EndOfDay"
    /\ UNCHANGED <<cfg, maxResDays, synced, warned, runs, dateIdx, roadmap, backlogs, rem, schedRes,
                   remainingRes, taskDeadlines, groupDeadlines, applied,
                   firstRun, resolveVars>>

(***************************************************************************)
(* scenario.py: allocatingFocusareas and the rest of a _scheduleForward    *)
(* iteration.                                                              *)
(***************************************************************************)
PoolSeq == [i \in Pools |-> i]

Absorbs(p) == cfg.pools[p].absorb

\* the names of the absorbing pools with a nonempty backlog; with
\* showUnusedResources the ResourcePool object self.unusedResources is
\* appended (UnusedCol stands for it), otherwise an empty list is replaced
\* by all absorbing pools
AllocatingFocusareas ==
    LET named == SelectSeq(PoolSeq, LAMBDA p : Absorbs(p) /\ Len(backlogs[p]) > 0)
    IN  IF cfg.showUnused THEN named \o <<UnusedCol>>
        ELSE IF Len(named) = 0 THEN SelectSeq(PoolSeq, Absorbs)
        ELSE named

\* the set of the names in the list
AllocNames == {AllocatingFocusareas[i] : i \in DOMAIN AllocatingFocusareas} \ {UnusedCol}

\* "Distribute resources to projects that still require resources": every
\* name adds its share to the counter of the pool the first pass ended with
\* (projectname) and to its own roadmap cell.  self.roadmap.loc[dateIdx, name]
\* raises KeyError for the ResourcePool object, after the counter was raised.
Redistribute ==
    /\ pc = "Redistribute"
    /\ LET alloc == AllocatingFocusareas
           n     == Len(alloc)
           share == IF n > 0 THEN DivCount(remainingRes[dateIdx], n) ELSE 0
       IN  /\ schedRes' = [schedRes EXCEPT ![LastProject][dateIdx] = @ + n * share]
           /\ roadmap' = [roadmap EXCEPT ![dateIdx] =
                            [c \in Columns |->
                                IF c \in AllocNames THEN @[c] + share ELSE @[c]]]
    /\ pc' = IF cfg.showUnused THEN "Crashed" ELSE "SecondPass"
    /\ UNCHANGED <<cfg, maxResDays, passWork, synced, warned, stalled, runs, dateIdx, passIdx, backlogIdx, backlogs, rem,
                   remainingRes, taskDeadlines, groupDeadlines, applied,
                   firstRun, resolveVars>>

\* finished = (dateIdx not in self.roadmap.index) or all backlogs empty
FinishedAtEndOnly(d) == d \notin Timeline
Finished(d) == d \notin Timeline \/ \A p \in ProjSet : Len(backlogs[p]) = 0

\* "Move unused resources" (only with showUnusedResources, where the loop
\* over allocatingFocusareas raises KeyError at the ResourcePool object),
\* then increment dateIdx and test finished
EndOfDay ==
    /\ pc = "EndOfDay"
    /\ IF cfg.showUnused
       THEN /\ roadmap' = [roadmap EXCEPT ![dateIdx] =
                            [c \in Columns |->
                                IF c = UnusedCol THEN schedRes[LastProject][dateIdx]
                                ELSE IF c \in AllocNames
                                     THEN @[c] - schedRes[LastProject][dateIdx]
                                     ELSE @[c]]]
            /\ pc' = "Crashed"
            /\ UNCHANGED dateIdx
       ELSE /\ dateIdx' = dateIdx + 1
            /\ pc' = IF Finished(dateIdx + 1) THEN "Distributing" ELSE "FirstPass"
            /\ UNCHANGED roadmap
    /\ stalled' = {}
    /\ UNCHANGED <<cfg, maxResDays, passWork, synced, warned, runs, passIdx, backlogIdx, backlogs, rem, schedRes,
                   remainingRes, taskDeadlines, groupDeadlines, applied,
                   firstRun, resolveVars>>

\* .loc[fromDate:, ...]: the rows from fromDate (the loop's final dateIdx) on
FromDateOnAll(d) == TRUE
FromDateOn(d) == d >= dateIdx

\* _distributeRemainingResources(dateIdx): from dateIdx on, every allocating
\* pool's roadmap cell becomes its resources plus an equal share of the
\* remaining resources
Distribute ==
    /\ pc = "Distributing"
    /\ LET alloc == AllocatingFocusareas
           n     == Len(alloc)
       IN  roadmap' =
             [d \in Timeline |->
                [c \in Columns |->
                    IF ~FromDateOn(d) \/ n = 0 THEN roadmap[d][c]
                    ELSE IF cfg.showUnused
                         THEN IF c = UnusedCol THEN remainingRes[d] ELSE roadmap[d][c]
                         ELSE IF c \in AllocNames
                              THEN Resources(c)[d] + DivCount(remainingRes[d], n)
                              ELSE roadmap[d][c]]]
    /\ pc' = "Deadlines"
    /\ UNCHANGED <<cfg, maxResDays, passWork, synced, warned, stalled, runs, dateIdx, passIdx, backlogIdx, backlogs, rem,
                   schedRes, remainingRes, taskDeadlines, groupDeadlines,
                   applied, firstRun, resolveVars>>

(***************************************************************************)
(* scenario.py: _setTaskgroupDeadlines                                     *)
(***************************************************************************)
SetMin(S) == CHOOSE x \in S : \A y \in S : x <= y
SetMax(S) == CHOOSE x \in S : \A y \in S : y <= x

\* tmp[tmp.notna()].max() over the group's tasks; NaN for an empty tmp
GroupDeadline(g, p) ==
    LET tmp == {taskDeadlines[t][p] : t \in {u \in Tasks : cfg.tasks[u].group = g}}
                  \ {NoDate}
    IN  IF tmp = {} THEN NoDate ELSE SetMax(tmp)

SetTaskgroupDeadlines ==
    /\ pc = "Deadlines"
    /\ groupDeadlines' = [g \in Groups |-> [p \in ProjSet |-> GroupDeadline(g, p)]]
    /\ pc' = "Done"
    /\ UNCHANGED <<cfg, maxResDays, passWork, synced, warned, stalled, runs, dateIdx, passIdx, backlogIdx, roadmap, backlogs,
                   rem, schedRes, remainingRes, taskDeadlines, applied,
                   firstRun, resolveVars>>

(***************************************************************************)
(* resources.py: ResourcePool.parameters, step by step, for one column.    *)
(***************************************************************************)
RMark ==
    /\ rpc = "mark"
    /\ rnext <= Len(rcons)
    /\ rseries' = ApplyConstraint(rseries, rcons[rnext], rcons[rnext].res)
    /\ rnext' = rnext + 1
    /\ UNCHANGED <<rcons, rpc, schedVars, poolVars>>

RMarked ==
    /\ rpc = "mark"
    /\ rnext > Len(rcons)
    /\ rpc' = "ffill"
    /\ UNCHANGED <<rcons, rseries, rnext, schedVars, poolVars>>

RFfill ==
    /\ rpc = "ffill"
    /\ rseries' = Ffill(rseries)
    /\ rpc' = "bfill"
    /\ UNCHANGED <<rcons, rnext, schedVars, poolVars>>

RBfill ==
    /\ rpc = "bfill"
    /\ rseries' = Bfill(rseries)
    /\ rpc' = "resolved"
    /\ UNCHANGED <<rcons, rnext, schedVars, poolVars>>

(***************************************************************************)
(* Initial states: the inputs, drawn from small sets.                      *)
(***************************************************************************)
MaxDay == 3

Pool(cons, n, basecost, absorb) ==
    [cons |-> cons,
     res |-> Resolve(cons, "resources", n),
     eff |-> Resolve(cons, "efficiency", n),
     basecost |-> basecost, absorb |-> absorb]

Task(number, group, prio, effort, pattern) ==
    [number |-> number, group |-> group, prio |-> prio,
     effort |-> effort, pattern |-> pattern]

\* initParams: a constant, efficiency 1/2, efficiency 2, piecewise with a gap
ConsTwo    == <<Always(Unit, 2 * Unit)>>
ConsHalf   == <<Always(Unit \div 2, Unit)>>
ConsDouble == <<Always(2 * Unit, Unit)>>
ConsPiece  == <<Between(0, 0, Unit, Unit), From(2, Unit, 2 * Unit)>>
ConsZero   == <<Always(Unit, 0)>>
ConsOne    == <<Always(Unit, Unit)>>

\* start weekday (Monday 0, Friday 4) and holidays
Calendars ==
    { [startWeekday |-> 0, holidays |-> {}],
      [startWeekday |-> 4, holidays |-> {}],
      [startWeekday |-> 0, holidays |-> {1}] }

\* no pool is used on its own
NoPool ==
    /\ plStart = 0
    /\ plEnd = 0
    /\ pcache = [has |-> FALSE, series |-> <<>>]
    /\ lastRead = <<>>

NoResolve ==
    /\ rcons = <<>>
    /\ rseries = <<>>
    /\ rpc = "off"
    /\ rnext = 0
    /\ NoPool

Constructed ==
    /\ pc = "Idle"
    /\ runs = 0
    /\ dateIdx = 0
    /\ passIdx = 1
    /\ backlogIdx = 0
    /\ roadmap = <<>>
    /\ backlogs = <<>>
    /\ rem = <<>>
    /\ schedRes = <<>>
    /\ remainingRes = <<>>
    /\ taskDeadlines = <<>>
    /\ groupDeadlines = <<>>
    /\ applied = <<>>
    /\ firstRun = <<>>
    /\ synced = FALSE
    /\ warned = FALSE
    /\ stalled = {}
    /\ maxResDays = 0
    /\ passWork = <<>>

\* scenario maximum and the second pool's base cost
Budgets ==
    { [maxRes |-> 4 * Unit, basecost |-> 0],
      [maxRes |-> 4 * Unit, basecost |-> Unit],
      [maxRes |-> Unit, basecost |-> Unit] }

Init ==
    /\ \E cal \in Calendars, showUnused \in BOOLEAN, bud \in Budgets,
          c1 \in {ConsTwo, ConsHalf, ConsDouble, ConsPiece}, c2 \in {ConsZero, ConsOne},
          a1 \in BOOLEAN, a2 \in BOOLEAN,
          e1 \in {<<3 * Unit, 0>>, <<Unit, Unit>>}, e2 \in {<<Unit, 0>>, <<Unit, 2 * Unit>>},
          p1 \in {NoPattern, <<1, 1, 2>>}, p2 \in {NoPattern, <<1, 1, 1>>, <<1, 1>>},
          g2 \in {1, 2} :
        \* blocking patterns are combined with the plain calendar only
        /\ (cal.startWeekday # 0 \/ cal.holidays # {} \/ showUnused)
              => (p1 = NoPattern /\ p2 = NoPattern)
        /\ showUnused => (cal.startWeekday = 0 /\ cal.holidays = {})
        \* the second task is in a task group of its own on the plain calendar only
        /\ g2 = 2 => (cal.startWeekday = 0 /\ cal.holidays = {} /\ ~showUnused)
        /\ cfg = [startWeekday |-> cal.startWeekday, nDays |-> MaxDay,
                  holidays |-> cal.holidays, maxRes |-> bud.maxRes,
                  showUnused |-> showUnused,
                  pools |-> <<Pool(c1, MaxDay, 0, a1), Pool(c2, MaxDay, bud.basecost, a2)>>,
                  tasks |-> <<Task(<<1, 1, 1>>, 1, 0, e1, <<p1, p1>>),
                              Task(<<1, 1, 2>>, g2, 0, e2, <<p2, p2>>)>>,
                  nGroups |-> 2,
                  mrdOk |-> TRUE, explicit |-> FALSE,
                  projectnames |-> <<1, 2>>]
    /\ Constructed
    /\ NoResolve

Next ==
    \/ ScheduleTasks
    \/ AllocStep
    \/ EndSingleDate
    \/ Redistribute
    \/ EndOfDay
    \/ Distribute
    \/ SetTaskgroupDeadlines

Spec == Init /\ [][Next]_vars

(***************************************************************************)
(* Scenarios with one pool (and, for blocking, a second one): the inputs   *)
(* of the spec's scenarios A, B and C, over several calendars and budgets. *)
(***************************************************************************)
ADays == 9
BDays == 8
CDays == 3

\* scenario A: capacity 2, efficiency 1, one task of effort 10
InitA ==
    /\ \E sw \in 0 .. 6, n \in {5, 7, ADays}, hol \in {{}, {2}},
          showUnused \in BOOLEAN, absorb \in BOOLEAN, maxRes \in {2 * Unit, 4 * Unit} :
        cfg = [startWeekday |-> sw, nDays |-> n, holidays |-> hol,
               maxRes |-> maxRes, showUnused |-> showUnused,
               pools |-> <<Pool(ConsTwo, n, 0, absorb)>>,
               tasks |-> <<Task(<<1, 1, 1>>, 1, 0, <<10 * Unit>>, <<NoPattern>>)>>,
               nGroups |-> 1,
               mrdOk |-> TRUE, explicit |-> FALSE,
                  projectnames |-> <<1>>]
    /\ Constructed
    /\ NoResolve

SpecA == InitA /\ [][Next]_vars

\* scenario B: capacity 1, efforts 4 (priority low, 1) and 2 (priority high, 3),
\* in either order in the task table
InitB ==
    /\ \E sw \in 0 .. 6, n \in {6, BDays, BDays + 2}, lowFirst \in BOOLEAN,
          showUnused \in BOOLEAN, absorb \in BOOLEAN,
          maxRes \in {Unit, 2 * Unit, 3 * Unit} :
        LET low  == Task(<<1, 1, 1>>, 1, 1, <<4 * Unit>>, <<NoPattern>>)
            high == Task(<<1, 1, 2>>, 1, 3, <<2 * Unit>>, <<NoPattern>>)
        IN  cfg = [startWeekday |-> sw, nDays |-> n, holidays |-> {},
                   maxRes |-> maxRes, showUnused |-> showUnused,
                   pools |-> <<Pool(ConsOne, n, 0, absorb)>>,
                   tasks |-> IF lowFirst THEN <<low, high>> ELSE <<high, low>>,
                   nGroups |-> 1,
                   mrdOk |-> TRUE, explicit |-> FALSE,
                  projectnames |-> <<1>>]
    /\ Constructed
    /\ NoResolve

SpecB == InitB /\ [][Next]_vars

\* scenario C: task X = 2.1.1 blocked on Y = 1.1.1 by Y's number or by the
\* prefix 1.1, in either order, in one pool or with Y in a second pool too
XNumber == <<2, 1, 1>>
YNumber == <<1, 1, 1>>

InitC ==
    /\ \E sw \in {0, 4}, xFirst \in BOOLEAN, absorb \in BOOLEAN,
          c1 \in {ConsOne, ConsTwo, ConsDouble}, two \in BOOLEAN,
          ex \in {Unit, 2 * Unit}, ey \in {Unit, 3 * Unit},
          px \in {YNumber, <<1, 1>>, NoPattern} :
        LET x == Task(XNumber, 1, 0, IF two THEN <<ex, 0>> ELSE <<ex>>,
                      IF two THEN <<px, px>> ELSE <<px>>)
            y == Task(YNumber, 1, 0, IF two THEN <<ey, Unit>> ELSE <<ey>>,
                      IF two THEN <<NoPattern, NoPattern>> ELSE <<NoPattern>>)
        IN  cfg = [startWeekday |-> sw, nDays |-> CDays, holidays |-> {},
                   maxRes |-> 3 * Unit, showUnused |-> FALSE,
                   pools |-> IF two
                             THEN <<Pool(c1, CDays, 0, absorb), Pool(ConsOne, CDays, 0, FALSE)>>
                             ELSE <<Pool(c1, CDays, 0, absorb)>>,
                   tasks |-> IF xFirst THEN <<x, y>> ELSE <<y, x>>,
                   nGroups |-> 1,
                   mrdOk |-> TRUE, explicit |-> FALSE,
                  projectnames |-> IF two THEN <<1, 2>> ELSE <<1>>]
    /\ Constructed
    /\ NoResolve

SpecC == InitC /\ [][Next]_vars

\* scenario C under the scheduling of FairSpec: the run is not postponed forever
FairSpecC == InitC /\ [][Next]_vars /\ WF_vars(Next)

(***************************************************************************)
(* Parameter resolution on its own: any list of up to MaxCons constraints  *)
(* on a timeline of RLen days; a start may lie after the timeline, an end  *)
(* before it, and either may be None.                                      *)
(***************************************************************************)
MaxCons == 2

RStarts == {[has |-> FALSE, at |-> 0]} \cup {[has |-> TRUE, at |-> d] : d \in 0 .. RLen}
REnds   == {[has |-> FALSE, at |-> 0]} \cup {[has |-> TRUE, at |-> d] : d \in -1 .. (RLen - 1)}

\* the i-th constraint of a list carries the value 4 * i + 1: 5, 9, ...
RConstraint(s, e, i) ==
    [hasStart |-> s.has, start |-> s.at, hasEnd |-> e.has, end |-> e.at,
     eff |-> Unit, res |-> 4 * i + 1]

Unscheduled ==
    /\ cfg = [startWeekday |-> 0, nDays |-> RLen, holidays |-> {}, maxRes |-> 0,
              showUnused |-> FALSE, pools |-> <<>>, tasks |-> <<>>, nGroups |-> 0,
              mrdOk |-> TRUE, explicit |-> FALSE,
                  projectnames |-> <<>>]
    /\ Constructed

ResolveInit ==
    /\ \E k \in 0 .. MaxCons :
         \E ss \in [1 .. k -> RStarts], ee \in [1 .. k -> REnds] :
            rcons = [i \in 1 .. k |-> RConstraint(ss[i], ee[i], i)]
    /\ rseries = EmptySeries(RLen)
    /\ rpc = "mark"
    /\ rnext = 1
    /\ NoPool
    /\ Unscheduled

ResolveNext == RMark \/ RMarked \/ RFfill \/ RBfill

ResolveSpec == ResolveInit /\ [][ResolveNext]_vars

(***************************************************************************)
(* scheduleTasks on a scenario whose planning file cannot be read: cfg.mrdOk *)
(* is whether mrdpath exists, cfg.explicit whether scheduleTasks is called *)
(* with a list of projectnames.  The task tables are loaded (updateMrd, and *)
(* csvParse raising ValueError) by the first statement that reads          *)
(* mrdTasklist or mrdTaskgroups.                                           *)
(***************************************************************************)
ScheduleTasksFails ==
    /\ pc = "Idle"
    /\ ~cfg.mrdOk
    /\ IF cfg.explicit
       \* _resetRoadmapDatastructures: synchroniseTimelines and self._roadmap
       \* come before the first read of mrdTaskgroups
       THEN /\ synced' = TRUE
            /\ roadmap' = NewRoadmap
       \* schedulableFocusareas reads mrdTasklist first
       ELSE UNCHANGED <<synced, roadmap>>
    /\ pc' = "Failed"
    /\ UNCHANGED <<cfg, maxResDays, passWork, runs, dateIdx, passIdx, backlogIdx, backlogs, rem, schedRes,
                   remainingRes, taskDeadlines, groupDeadlines, applied, firstRun,
                   warned, stalled, resolveVars>>

InitLoad ==
    /\ \E sw \in {0, 4}, c1 \in {ConsOne, ConsTwo}, absorb \in BOOLEAN,
          mrdOk \in BOOLEAN, explicit \in BOOLEAN, e \in {0, 2 * Unit} :
        \* e = 0: no task has effort for the pool, its backlog starts empty
        cfg = [startWeekday |-> sw, nDays |-> MaxDay, holidays |-> {},
               maxRes |-> 3 * Unit, showUnused |-> FALSE,
               pools |-> <<Pool(c1, MaxDay, 0, absorb)>>,
               tasks |-> <<Task(<<1, 1, 1>>, 1, 0, <<e>>, <<NoPattern>>)>>,
               nGroups |-> 1,
               mrdOk |-> mrdOk, explicit |-> explicit,
               projectnames |-> <<1>>]
    /\ Constructed
    /\ NoResolve

LoadNext ==
    \/ ScheduleTasksFails
    \/ ScheduleTasks
    \/ AllocStep
    \/ EndSingleDate
    \/ Redistribute
    \/ EndOfDay
    \/ Distribute
    \/ SetTaskgroupDeadlines

SpecLoad == InitLoad /\ [][LoadNext]_vars

(***************************************************************************)
(* The scenario's bounds are changed between two scheduleTasks calls.  The *)
(* timeline starts at day 0; timelineEnd is moved, which sets nDays.  The  *)
(* pools take the new bounds in synchroniseTimelines and resolve their     *)
(* parameters for them at the next read.                                   *)
(***************************************************************************)
\* Scenario.timelineEnd = ...
SetScenarioEnd ==
    /\ pc \in {"Idle", "Done"}
    /\ \E n \in 2 .. MaxDay :
        /\ n # cfg.nDays
        /\ cfg' = [cfg EXCEPT !.nDays = n,
                              !.pools = [i \in DOMAIN @ |->
                                           Pool(@[i].cons, n, @[i].basecost, @[i].absorb)]]
    /\ synced' = FALSE
    /\ UNCHANGED <<pc, runs, dateIdx, passIdx, backlogIdx, roadmap, backlogs, rem,
                   schedRes, remainingRes, taskDeadlines, groupDeadlines, applied,
                   firstRun, warned, stalled, maxResDays, passWork, resolveVars>>

\* scheduleTasks when the pool "Max. Resources" still has other bounds than
\* the scenario: _resetRoadmapDatastructures rebuilds the roadmap, deadlines,
\* backlogs and counters for the new timeline, then _resetRemainingRessources
\* subtracts arrays of different lengths and raises ValueError
ScheduleTasksStale ==
    /\ pc \in {"Idle", "Done"}
    /\ cfg.mrdOk
    /\ runs < MaxRuns
    /\ MaxResDaysNow # cfg.nDays
    /\ runs' = runs + 1
    /\ firstRun' = IF pc = "Done" THEN Outputs ELSE firstRun
    /\ roadmap' = NewRoadmap
    /\ groupDeadlines' = EmptyGroupDeadlines
    /\ taskDeadlines' = EmptyTaskDeadlines
    /\ backlogs' = [p \in ProjSet |-> InitialBacklog(p)]
    /\ rem' = [p \in ProjSet |-> [t \in Tasks |-> Effort(t, p)]]
    /\ applied' = [p \in ProjSet |-> [t \in Tasks |-> 0]]
    /\ passWork' = [t \in Tasks |-> 0]
    /\ schedRes' = NewSchedRes
    /\ synced' = TRUE
    /\ pc' = "Crashed"
    /\ cfg' = CfgAfterReset
    /\ UNCHANGED <<maxResDays, remainingRes, dateIdx, passIdx, backlogIdx, warned,
                   stalled, resolveVars>>

InitBounds ==
    /\ \E sw \in {0, 4}, c1 \in {ConsOne, ConsTwo, ConsPiece}, absorb \in BOOLEAN,
          n \in 2 .. MaxDay, e \in {Unit, 2 * Unit} :
        cfg = [startWeekday |-> sw, nDays |-> n, holidays |-> {},
               maxRes |-> 3 * Unit, showUnused |-> FALSE,
               pools |-> <<Pool(c1, n, 0, absorb)>>,
               tasks |-> <<Task(<<1, 1, 1>>, 1, 0, <<e>>, <<NoPattern>>)>>,
               nGroups |-> 1,
               mrdOk |-> TRUE, explicit |-> FALSE,
               projectnames |-> <<1>>]
    /\ Constructed
    /\ NoResolve

BoundsNext ==
    \/ SetScenarioEnd
    \/ ScheduleTasks
    \/ ScheduleTasksStale
    \/ AllocStep
    \/ EndSingleDate
    \/ Redistribute
    \/ EndOfDay
    \/ Distribute
    \/ SetTaskgroupDeadlines

SpecBounds == InitBounds /\ [][BoundsNext]_vars

(***************************************************************************)
(* resources.py: ResourcePool.parameters with its cache self._parameters,  *)
(* and the timeline setters of timehandling.py, for a pool on its own.  The *)
(* pool's timeline is the days plStart .. plEnd of the calendar days       *)
(* 0 .. RLen-1 (start <= end); the constraints carry calendar days.        *)
(***************************************************************************)
\* the constraint with its dates counted from day k
Shift(c, k) == [c EXCEPT !.start = @ - k, !.end = @ - k]

\* one column resolved on the index pd.date_range(start, end)
ResolveOn(cons, col, s, e) ==
    LET r == Resolve([i \in DOMAIN cons |-> Shift(cons[i], s)], col, e - s + 1)
    IN  [d \in s .. e |-> r[d - s]]

\* self._parameters.index[0] and self._parameters.index[-1]
FirstIdx(f) == CHOOSE d \in DOMAIN f : \A x \in DOMAIN f : d <= x
LastIdx(f)  == CHOOSE d \in DOMAIN f : \A x \in DOMAIN f : x <= d

\* doUpdate: no cache yet, or its first or last index is not the bound
DoUpdateStartOnly ==
    IF ~pcache.has THEN TRUE ELSE FirstIdx(pcache.series) # plStart
DoUpdate ==
    IF ~pcache.has THEN TRUE
    ELSE IF FirstIdx(pcache.series) # plStart THEN TRUE
    ELSE LastIdx(pcache.series) # plEnd

\* timelineStart.setter
SetTimelineStart ==
    /\ rpc \in {"pool", "read"}
    /\ \E s \in 0 .. plEnd : plStart' = s
    /\ rpc' = "pool"
    /\ UNCHANGED <<rcons, rseries, rnext, plEnd, pcache, lastRead, schedVars>>

\* timelineEnd.setter
SetTimelineEnd ==
    /\ rpc \in {"pool", "read"}
    /\ \E e \in plStart .. (RLen - 1) : plEnd' = e
    /\ rpc' = "pool"
    /\ UNCHANGED <<rcons, rseries, rnext, plStart, pcache, lastRead, schedVars>>

\* a read of parameters (one column of it)
ReadParameters ==
    /\ rpc \in {"pool", "read"}
    /\ pcache' = IF DoUpdate
                 THEN [has |-> TRUE,
                       series |-> ResolveOn(rcons, "resources", plStart, plEnd)]
                 ELSE pcache
    /\ lastRead' = pcache'.series
    /\ rpc' = "read"
    /\ UNCHANGED <<rcons, rseries, rnext, plStart, plEnd, schedVars>>

\* initParams of the pool: none, a constant, one interval, piecewise with a
\* gap, piecewise without one
PoolConfigs ==
    { <<>>,
      <<Always(Unit, 2 * Unit)>>,
      <<Between(1, 1, Unit, Unit)>>,
      <<Between(0, 0, Unit, Unit), From(2, Unit, 2 * Unit)>>,
      <<Until(RLen - 2, Unit, 3 * Unit), From(RLen - 1, Unit, Unit)>> }

\* a pool constructed with the whole calendar as its timeline, never read
PoolInit ==
    /\ rcons \in PoolConfigs
    /\ rseries = <<>>
    /\ rpc = "pool"
    /\ rnext = 0
    /\ plStart = 0
    /\ plEnd = RLen - 1
    /\ pcache = [has |-> FALSE, series |-> <<>>]
    /\ lastRead = <<>>
    /\ Unscheduled

PoolNext == SetTimelineStart \/ SetTimelineEnd \/ ReadParameters

PoolSpec == PoolInit /\ [][PoolNext]_vars

\* scheduleTasks runs to completion once called: no step is postponed forever
FairSpec == Init /\ [][Next]_vars /\ WF_vars(Next)

(***************************************************************************)
(* Properties.                                                             *)
(***************************************************************************)
Running == pc \notin {"Idle"}

\* C1: scheduleTasks always reaches Done (the day loop ends at the latest
\* with the last timeline day, whatever the backlogs)
C1_ReachesDone == <>(pc = "Done")

\* C2: in every state of a scheduling run every Roadmap cell and every pool's
\* remaining-capacity-today value is >= 0
C2_NonNegative ==
    Running =>
        /\ \A d \in Timeline : \A c \in Columns : roadmap[d][c] >= 0
        /\ \A p \in ProjSet : \A d \in Timeline : schedRes[p][d] >= 0

\* C3: effort conservation: for every task/pool pair, remaining effort plus
\* the work applied so far equals the initial effort E, and once a completion
\* date is recorded the work applied equals E
C3_EffortConservation ==
    Running =>
        \A p \in ProjSet : \A t \in Tasks :
            /\ rem[p][t] + applied[p][t] = Effort(t, p)
            /\ taskDeadlines[t][p] # NoDate => applied[p][t] = Effort(t, p)

\* a task needing several steps is completed while another is partly done
C3_Witness ==
    /\ Running
    /\ \E p \in ProjSet : \E t \in Tasks :
        /\ taskDeadlines[t][p] # NoDate
        /\ applied[p][t] = Effort(t, p)
        /\ Effort(t, p) > Unit
    /\ \E p \in ProjSet : \E u \in Tasks :
        /\ applied[p][u] > 0
        /\ rem[p][u] > 0

\* C4: monotonic backlog drain: during a run no step (allocation step, end
\* of a pass, end of a day) increases the number of entries of any backlog
C4_BacklogNeverGrows ==
    [][pc \notin {"Idle", "Done"} =>
          \A p \in ProjSet : Len(backlogs'[p]) <= Len(backlogs[p])]_vars

\* a backlog has shrunk and is not yet empty
C4_Witness ==
    /\ pc \in {"FirstPass", "SecondPass"}
    /\ \E p \in ProjSet :
        /\ Len(backlogs[p]) > 0
        /\ Len(backlogs[p]) < Cardinality({t \in Tasks : Effort(t, p) # 0})

\* C5: determinism: a second scheduleTasks call on the same Scenario ends with
\* the same Roadmap, task completion dates and task-group deadlines as the first
C5_Deterministic ==
    (pc = "Done" /\ runs >= 2) => Outputs = firstRun

\* a second run has ended, after a first one that completed a task and
\* redistributed surplus
C5_Witness ==
    /\ pc = "Done"
    /\ runs >= 2
    /\ \E t \in Tasks : \E p \in ProjSet : taskDeadlines[t][p] # NoDate
    /\ \E t \in Tasks : \E p \in ProjSet : Effort(t, p) # 0 /\ taskDeadlines[t][p] = NoDate
    /\ \E d \in Timeline : \E p \in Pools :
          roadmap[d][p] > Basecost(p)[d] + Resources(p)[d]

(***************************************************************************)
(* Scenario B.                                                             *)
(***************************************************************************)
HighTask == CHOOSE t \in Tasks : \A u \in Tasks : cfg.tasks[t].prio >= cfg.tasks[u].prio
LowTask  == CHOOSE t \in Tasks : \A u \in Tasks : cfg.tasks[t].prio <= cfg.tasks[u].prio

\* C6: every backlog is ordered by priority descending, and of two tasks in
\* one pool (efforts 4 and 2, capacity 1 a day) the one with the higher
\* priority completes strictly before the other, wherever it is in the table
C6_PriorityOrder ==
    Running =>
        /\ \A p \in ProjSet : \A i, j \in DOMAIN backlogs[p] :
              i < j => cfg.tasks[backlogs[p][i]].prio >= cfg.tasks[backlogs[p][j]].prio
        /\ (pc = "Done" /\ taskDeadlines[LowTask][1] # NoDate)
              => /\ taskDeadlines[HighTask][1] # NoDate
                 /\ taskDeadlines[HighTask][1] < taskDeadlines[LowTask][1]

(***************************************************************************)
(* Scenario C.                                                             *)
(***************************************************************************)
XTask == CHOOSE t \in Tasks : Number(t) = XNumber
YTask == CHOOSE t \in Tasks : Number(t) = YNumber

\* the pattern occurs in the number: number = a \o pattern \o b for some a, b
Occurs(pattern, number) ==
    \E i \in 1 .. (Len(number) + 1) : \E j \in (i - 1) .. Len(number) :
        SubSeq(number, i, j) = pattern

YInSomeBacklog ==
    \E q \in ProjSet : \E i \in DOMAIN backlogs[q] : backlogs[q][i] = YTask

\* a step that gives X work is taken with Y in no backlog
XWorkedOnlyAfterY ==
    pc \in {"FirstPass", "SecondPass"} =>
        \A p \in ProjSet :
            (Occurs(Pattern(XTask, p), YNumber) /\ rem'[p][XTask] < rem[p][XTask])
                => ~YInSomeBacklog

\* X gets no work while Y, whose number its pattern matches, is in a backlog
XWaitsForY ==
    [][XWorkedOnlyAfterY]_vars

\* at the end of the day Y completed in the only pool, X has received work
\* unless the pool's capacity of the day is used up
XStartsWithY ==
    (pc = "EndOfDay" /\ NP = 1 /\ taskDeadlines[YTask][1] = dateIdx)
        => (applied[1][XTask] > 0 \/ schedRes[1][dateIdx] <= 0)

WorkingDays == {d \in Timeline : (cfg.startWeekday + d) % 7 < 5 /\ d \notin cfg.holidays}

\* the k-th working day of the timeline, NoDate if there are fewer
NthWorkingDay(k) ==
    LET S == {d \in WorkingDays : Cardinality({e \in WorkingDays : e <= d}) = k}
    IN  IF S = {} THEN NoDate ELSE CHOOSE d \in S : TRUE

\* the pool is given no surplus: it does not absorb, or nothing is left over
NoSurplusAbsorbed == ~Absorbs(1) \/ cfg.maxRes = 2 * Unit

Fresh ==
    /\ pc = "FirstPass"
    /\ dateIdx = 0
    /\ passIdx = 1
    /\ backlogIdx = 0
    /\ \A p \in ProjSet : \A t \in Tasks : applied[p][t] = 0

IsWeekend(d) == (cfg.startWeekday + d) % 7 \in {5, 6}

\* C9: after Initializing (and for every day the run has not reached yet) the
\* capacity-remaining value of every scheduled pool is 0 on a Saturday, Sunday
\* or holiday and the pool's resolved capacity on every other day
C9_WeekendExclusion ==
    Running =>
        \A p \in ProjSet : \A d \in Timeline :
            (Fresh \/ d > dateIdx) =>
                schedRes[p][d] = IF IsWeekend(d) \/ d \in cfg.holidays
                                 THEN 0 ELSE Resources(p)[d]

\* right after Initializing: a weekend day with configured capacity seeded 0,
\* next to a working day seeded with the capacity
C9_Witness ==
    /\ Fresh
    /\ \E p \in ProjSet : \E d, e \in Timeline :
        /\ IsWeekend(d)
        /\ Resources(p)[d] > 0
        /\ schedRes[p][d] = 0
        /\ ~IsWeekend(e)
        /\ schedRes[p][e] = Resources(p)[e]
        /\ schedRes[p][e] > 0

(***************************************************************************)
(* Piecewise resolution against its reference.                             *)
(***************************************************************************)
InRange(c, d) == (c.hasStart => c.start <= d) /\ (c.hasEnd => d <= c.end)

Marked(d) == \E i \in DOMAIN rcons : InRange(rcons[i], d)

\* the value of the last constraint, in input order, that covers day d
LastValue(d) ==
    LET i == CHOOSE k \in DOMAIN rcons :
                /\ InRange(rcons[k], d)
                /\ \A m \in DOMAIN rcons : InRange(rcons[m], d) => m <= k
    IN  rcons[i].res

Expected(d) ==
    LET before == {e \in DOMAIN rseries : e < d /\ Marked(e)}
        after  == {e \in DOMAIN rseries : e > d /\ Marked(e)}
    IN  IF Marked(d) THEN LastValue(d)
        ELSE IF before # {} THEN LastValue(CHOOSE e \in before : \A f \in before : f <= e)
        ELSE IF after # {} THEN LastValue(CHOOSE e \in after : \A f \in after : e <= f)
        ELSE NaN

\* C10: the resolved series is, day by day, the value of the last constraint
\* covering the day, else that of the nearest covered day before it, else that
\* of the nearest covered day after it; it has no undefined day when some
\* constraint covers a timeline day
C10_Resolved ==
    rpc = "resolved" =>
        /\ \A d \in DOMAIN rseries : rseries[d] = Expected(d)
        /\ (\E d \in DOMAIN rseries : Marked(d))
              => \A d \in DOMAIN rseries : rseries[d] # NaN

\* two constraints (5, then 9) with a gap between them, filled with 5, as in
\* the spec's example; an uncovered first day takes the value after it
C10_Witness ==
    /\ rpc = "resolved"
    /\ Len(rcons) = 2
    /\ \E d \in 1 .. (RLen - 2) :
        /\ ~Marked(d)
        /\ Marked(d - 1) /\ rseries[d - 1] = 5
        /\ Marked(d + 1) /\ rseries[d + 1] = 9
        /\ rseries[d] = 5
    /\ ~Marked(0)
    /\ rseries[0] = 5

(***************************************************************************)
(* Configuration errors.                                                   *)
(***************************************************************************)
\* C11: a resolved series never contains an undefined value: an attribute that
\* no constraint supplies on any timeline day is rejected as a configuration
\* error instead of being resolved
C11_NoUndefinedSeries ==
    rpc = "resolved" => \A d \in DOMAIN rseries : rseries[d] # NaN

\* C12: when scheduleTasks fails because the planning file cannot be read, no
\* scheduling state has been created or modified: roadmap, backlogs, capacity
\* counters, completion-date tables and the pools' timeline bounds are as
\* they were, with defaulted and with explicit pool names
C12_NoMutationOnFailure ==
    pc = "Failed" =>
        /\ roadmap = <<>>
        /\ backlogs = <<>>
        /\ rem = <<>>
        /\ schedRes = <<>>
        /\ remainingRes = <<>>
        /\ taskDeadlines = <<>>
        /\ groupDeadlines = <<>>
        /\ synced = FALSE

(***************************************************************************)
(* Capacity insufficiency.                                                 *)
(***************************************************************************)
\* what the pools are assigned on day d: resources and base costs
Demand(d) ==
    SumOver([p \in Pools |-> cfg.pools[p].res[d] + cfg.pools[p].basecost], Pools)

Insufficient(d) == cfg.maxRes < Demand(d)

Members(g, p) == {t \in Tasks : cfg.tasks[t].group = g /\ cfg.tasks[t].effort[p] # 0}

\* C14: after Done, the deadline of task group g in pool p is the latest
\* recorded completion date in p of g's tasks with nonzero effort in p, and
\* is absent (not day 0) when none has one, so when no task of g is assigned to p
C14_Aggregation ==
    pc = "Done" =>
        \A g \in Groups : \A p \in ProjSet :
            LET dated == {t \in Members(g, p) : taskDeadlines[t][p] # NoDate}
            IN  IF dated = {}
                THEN groupDeadlines[g][p] = NoDate
                ELSE /\ \E t \in dated : groupDeadlines[g][p] = taskDeadlines[t][p]
                     /\ \A t \in dated : taskDeadlines[t][p] <= groupDeadlines[g][p]

\* a group whose two tasks completed on different days in one pool, and a
\* group without a task in some pool
C14_Witness ==
    /\ pc = "Done"
    /\ \E g \in Groups : \E p \in ProjSet : \E t, u \in Members(g, p) :
        /\ taskDeadlines[t][p] # NoDate
        /\ taskDeadlines[u][p] > taskDeadlines[t][p]
        /\ groupDeadlines[g][p] = taskDeadlines[u][p]
    /\ \E g \in Groups : \E p \in ProjSet :
        /\ Members(g, p) = {}
        /\ groupDeadlines[g][p] = NoDate

(***************************************************************************)
(* The allocation step.                                                    *)
(***************************************************************************)
\* the unit of work of the step about to be taken, for parallelizability 1:
\* min(1, remainingCapacity / 1, task.remainingEffort)
UnitOfWork == Min3(Unit, schedRes[CurPool][dateIdx], rem[CurPool][CurTask(CurPool)])

\* C15: an allocation step for pool P on day d takes efficiency(d) * unit off
\* the task's remaining effort and unit off P's remaining capacity of d,
\* where unit = min(1, remainingCapacity / parallelizability, remainingEffort)
C15_UnitOfWork ==
    [][AllocStep =>
          LET p == CurPool
              t == CurTask(p)
          IN  /\ rem'[p][t] = rem[p][t] - Mul(Efficiency(p)[dateIdx], UnitOfWork)
              /\ schedRes'[p][dateIdx] = schedRes[p][dateIdx] - UnitOfWork]_vars

(***************************************************************************)
(* Termination of the single-day allocation.                               *)
(***************************************************************************)
\* C16: for every pool and day the single-day allocation ends after finitely
\* many steps, for every capacity and every efficiency > 0: no pass over the
\* pools (one single-day allocation per pool, all of one day) goes on for ever
C16_SingleDateTerminates ==
    []<>(pc \notin {"FirstPass", "SecondPass"})

(***************************************************************************)
(* Rounding.                                                               *)
(***************************************************************************)
\* a positive quantity below 0.01 labor-day
BelowEpsilon(x) == 0 < x /\ 100 * x < Unit

\* C17: after every allocation step no remaining effort and no remaining
\* capacity lies below 0.01 labor-day without being exactly 0, so no task with
\* less than 0.01 left is still in a backlog
C17_EpsilonSnap ==
    pc \in {"FirstPass", "SecondPass", "Redistribute", "EndOfDay"} =>
        \A p \in ProjSet :
            /\ \A t \in Tasks : ~BelowEpsilon(rem[p][t])
            /\ \A d \in Timeline : ~BelowEpsilon(schedRes[p][d])

(***************************************************************************)
(* Completion bookkeeping.                                                 *)
(***************************************************************************)
InBacklog(t, p) == \E i \in DOMAIN backlogs[p] : backlogs[p][i] = t

\* a task is in the backlog of p iff it has effort in p and no completion date
BacklogIffOpen ==
    pc \notin {"Idle", "Failed"} =>
        \A p \in ProjSet : \A t \in Tasks :
            InBacklog(t, p) <=> (cfg.tasks[t].effort[p] # 0 /\ taskDeadlines[t][p] = NoDate)

\* during a run a completion date is written once, on the day and in the step
\* in which the remaining effort becomes 0; the step removes the task from
\* the backlog and puts the cursor on the first entry
DateWrittenOnCompletion ==
    pc \in {"FirstPass", "SecondPass"} =>
        \A p \in ProjSet : \A t \in Tasks :
            /\ taskDeadlines'[t][p] # taskDeadlines[t][p] =>
                  /\ taskDeadlines[t][p] = NoDate
                  /\ taskDeadlines'[t][p] = dateIdx
                  /\ rem[p][t] # 0
                  /\ rem'[p][t] = 0
                  /\ InBacklog(t, p)
                  /\ ~InBacklog(t, p)'
                  /\ backlogIdx' = 0
            /\ (rem[p][t] # 0 /\ rem'[p][t] = 0) => taskDeadlines'[t][p] = dateIdx

\* C18: between allocation steps a task is in pool P's backlog iff it was
\* assigned nonzero effort in P and has no completion date for P; the date is
\* written exactly once, is the day the remaining effort reached zero, and
\* the same step removes the task and returns the cursor to the first entry
C18_Bookkeeping ==
    /\ []BacklogIffOpen
    /\ [][DateWrittenOnCompletion]_vars

\* one task of the pool completed and left the backlog, another is still in
\* it, and a task without effort in a pool has neither entry nor date there
C18_Witness ==
    /\ pc \in {"FirstPass", "SecondPass"}
    /\ \E p \in ProjSet : \E t, u \in Tasks :
        /\ taskDeadlines[t][p] = dateIdx
        /\ ~InBacklog(t, p)
        /\ applied[p][t] > Unit
        /\ InBacklog(u, p)
    /\ \E p \in ProjSet : \E t \in Tasks :
        /\ cfg.tasks[t].effort[p] = 0
        /\ ~InBacklog(t, p)
        /\ taskDeadlines[t][p] = NoDate

(***************************************************************************)
(* The cursor.                                                             *)
(***************************************************************************)
\* the cursor is on an entry of the backlog being served
CursorInBacklog ==
    (pc \in {"FirstPass", "SecondPass"} /\ Len(backlogs[CurPool]) > 0)
        => backlogIdx \in 0 .. (Len(backlogs[CurPool]) - 1)

\* a step that gives a task work without completing it moves the cursor to
\* the next entry, to the first one from the last
CursorAdvances ==
    (AllocStep /\ rem'[CurPool][CurTask(CurPool)] # 0) =>
        /\ backlogs' = backlogs
        /\ backlogIdx' = (backlogIdx + 1) % Len(backlogs[CurPool])

\* C19: within a single-day allocation pass, after a task received work
\* without completing the next task served is the next backlog entry, the
\* first one after the last; the cursor always indexes an existing entry
C19_RoundRobin ==
    /\ []CursorInBacklog
    /\ [][CursorAdvances]_vars

\* on the first day both tasks of a pool received work and neither completed:
\* the cursor went from the first entry to the second and back to the first
C19_Witness ==
    /\ pc = "FirstPass"
    /\ dateIdx = 0
    /\ passIdx = 1
    /\ Len(backlogs[1]) = 2
    /\ backlogIdx = 0
    /\ \A t \in Tasks : applied[1][t] > 0 /\ rem[1][t] > 0

(***************************************************************************)
(* Head-of-line blocking.                                                  *)
(***************************************************************************)
\* C20: once the task at the cursor of pool P was found blocked on day d, the
\* blocked task is not skipped and no task of P receives further work on day
\* d, neither in the rest of the first pass nor in the second pass
C20_HeadOfLine ==
    [][(pc \in {"FirstPass", "SecondPass"} /\ CurPool \in stalled)
          => applied'[CurPool] = applied[CurPool]]_vars

(***************************************************************************)
(* The redistribution step between the two passes of a day.                *)
(***************************************************************************)
\* the absorbing pools that still have a nonempty backlog
AbsorbTargets == {p \in ProjSet : Absorbs(p) /\ Len(backlogs[p]) > 0}

TargetsGetShare ==
    pc = "Redistribute" =>
        \E s \in 0 .. cfg.maxRes :
            \A p \in ProjSet :
                LET add == IF p \in AbsorbTargets THEN s ELSE 0
                IN  /\ schedRes'[p][dateIdx] = schedRes[p][dateIdx] + add
                    /\ roadmap'[dateIdx][p] = roadmap[dateIdx][p] + add

\* C21: the redistribution step of a day adds one and the same share to the
\* remaining-capacity-today counter and to the Roadmap cell of every absorbing
\* pool with a nonempty backlog, and leaves the counter and the cell of every
\* other pool unchanged
C21_SurplusTargets == [][TargetsGetShare]_vars


\* what the pools that do not absorb surplus have left of today's capacity
UnclaimedByOthers ==
    SumOver([p \in ProjSet |-> IF Absorbs(p) THEN 0 ELSE schedRes[p][dateIdx]], ProjSet)

\* what the step adds to the remaining-capacity-today counters, all pools together
Distributed ==
    SumOver([p \in ProjSet |-> schedRes'[p][dateIdx] - schedRes[p][dateIdx]], ProjSet)

DistributesUnclaimed ==
    (pc = "Redistribute" /\ AbsorbTargets # {}) => Distributed = UnclaimedByOthers

\* C22: the total capacity distributed in the redistribution step of day d is
\* the sum, over the pools that do not absorb surplus, of the capacity those
\* pools left unclaimed after the first pass of day d
C22_SurplusAmount == [][DistributesUnclaimed]_vars


(***************************************************************************)
(* The second pass of a day.                                               *)
(***************************************************************************)
SecondPassLeaves(p) ==
    /\ backlogs'[p] = backlogs[p]
    /\ schedRes'[p][dateIdx] = schedRes[p][dateIdx]
    /\ rem'[p] = rem[p]
    /\ \A t \in Tasks : taskDeadlines'[t][p] = taskDeadlines[t][p]

SecondPassAbsorbingOnly ==
    pc = "SecondPass" => \A p \in ProjSet : ~Absorbs(p) => SecondPassLeaves(p)

\* C23: the second pass of a day changes remaining effort, backlog membership
\* and completion dates only for tasks of absorbing pools; the backlog and
\* the remaining-capacity counter of every pool that does not absorb surplus
\* are after the second pass what they were after the first
C23_SecondPassScope == [][SecondPassAbsorbingOnly]_vars


(***************************************************************************)
(* Moving unused capacity to the 'unused' column (showUnusedResources).    *)
(***************************************************************************)
\* what the pools have left of today's capacity after both passes
StillUnclaimed == SumOver([p \in ProjSet |-> schedRes[p][dateIdx]], ProjSet)

MovesUnclaimedToSink ==
    (pc = "EndOfDay" /\ cfg.showUnused) =>
        /\ roadmap'[dateIdx][UnusedCol] = StillUnclaimed
        /\ \A p \in ProjSet :
              roadmap'[dateIdx][p] = roadmap[dateIdx][p] - schedRes[p][dateIdx]

\* the day's iteration gets as far as the move
ReachesTheMove == cfg.showUnused => pc # "Crashed"

\* C24: with the 'unused' sink in use, each day's unused capacity is moved to
\* the sink: the sink's Roadmap cell for the day becomes the sum of the pools'
\* still-unclaimed capacity after both passes, each pool's cell is reduced by
\* its own unclaimed capacity, and so the total of the day's row is unchanged
C24_YieldUnused == []ReachesTheMove /\ [][MovesUnclaimedToSink]_vars


(***************************************************************************)
(* The day loop of _scheduleForward: which days are processed.             *)
(***************************************************************************)
InDay == pc \in {"FirstPass", "Redistribute", "SecondPass", "EndOfDay"}

SomeBacklogOpen == \E p \in ProjSet : Len(backlogs[p]) > 0

\* the end of a day's iteration: dateIdx is incremented and finished is tested
DayBoundary == pc = "EndOfDay" /\ dateIdx' = dateIdx + 1

\* a step that starts the processing of a day
StartsDay == pc # "FirstPass" /\ pc' = "FirstPass"

\* the claim as stated: a day is processed only if it is in the timeline and
\* some backlog is nonempty when the day starts
StartsOnlyWithWork == StartsDay => (dateIdx' \in Timeline /\ SomeBacklogOpen')

C25_Original == [][StartsOnlyWithWork]_vars

ProcessedDayInTimeline == InDay => dateIdx \in Timeline

ExitStep ==
    \* the first timeline day is processed whatever the backlogs hold
    /\ pc \in {"Idle", "Done"} /\ pc' \notin {"Idle", "Done", "Failed"}
          => (pc' = "FirstPass" /\ dateIdx' = 0)
    \* a later day is started at a day boundary only, with some backlog open
    /\ (StartsDay /\ pc \notin {"Idle", "Done"})
          => (DayBoundary /\ dateIdx' \in Timeline /\ SomeBacklogOpen)
    \* at a day boundary the loop ends exactly if one of the conditions fails
    /\ DayBoundary
          => /\ pc' \in {"FirstPass", "Distributing"}
             /\ pc' = "Distributing" <=> (dateIdx' \notin Timeline \/ ~SomeBacklogOpen)
    \* days are visited in ascending order, one at a time
    /\ dateIdx' # dateIdx => (DayBoundary \/ (pc \in {"Idle", "Done"} /\ dateIdx' = 0))

\* C25: every day after the first is processed only if it lies inside the
\* Timeline and some backlog is nonempty when it starts, and the loop moves
\* to Distributing at the first day boundary where either condition fails;
\* the first timeline day is always processed, also with all backlogs empty
C25_ExitCondition == []ProcessedDayInTimeline /\ [][ExitStep]_vars

\* the loop has ended before the timeline's end because the backlogs are empty
C25_Witness ==
    /\ pc = "Distributing"
    /\ dateIdx > 1
    /\ dateIdx \in Timeline
    /\ ~SomeBacklogOpen


(***************************************************************************)
(* The Distributing step (_distributeRemainingResources).                  *)
(***************************************************************************)
AbsorbingPools == {p \in Pools : Absorbs(p)}

\* the day's surplus divided by the number of absorbing pools
EqualShare(d) == DivCount(NewRemaining[d], Cardinality(AbsorbingPools))

\* C26: after Done, on every day after the termination day the Roadmap cell
\* of every absorbing pool is its base cost plus its assigned resources plus
\* an equal share of the day's surplus (the scenario maximum minus all pools'
\* assigned resources and base costs), the same share for every absorbing pool
C26_DistributingValues ==
    pc = "Done" =>
        \A d \in Timeline : d >= dateIdx =>
            \A p \in AbsorbingPools :
                roadmap[d][p] = Basecost(p)[d] + Resources(p)[d] + EqualShare(d)


DistributeFrame ==
    pc = "Distributing" =>
        /\ \A d \in Timeline : \A c \in Columns :
              (d < dateIdx \/ c \notin AbsorbingPools) => roadmap'[d][c] = roadmap[d][c]
        /\ backlogs' = backlogs
        /\ rem' = rem
        /\ taskDeadlines' = taskDeadlines
        /\ AbsorbingPools = {} =>
              UNCHANGED <<roadmap, schedRes, remainingRes, groupDeadlines>>

\* C27: the Distributing step leaves unchanged every Roadmap cell of the days
\* up to and including the termination day, every Roadmap column of a pool
\* that does not absorb surplus, all backlogs and all recorded completion
\* dates; without an absorbing pool it changes nothing at all
C27_DistributingFrame == [][DistributeFrame]_vars

\* Distributing has rewritten the later days of an absorbing pool's column,
\* next to a pool that does not absorb and after days the loop has processed
C27_Witness ==
    /\ pc = "Deadlines"
    /\ dateIdx > 0
    /\ dateIdx \in Timeline
    /\ \E p \in AbsorbingPools : roadmap[dateIdx][p] # NewRoadmap[dateIdx][p]
    /\ \E q \in Pools : ~Absorbs(q)
    /\ \E p \in ProjSet : \E t \in Tasks : taskDeadlines[t][p] # NoDate


(***************************************************************************)
(* Non-working days.                                                       *)
(***************************************************************************)
NoWorkDone ==
    (InDay /\ NoWork(dateIdx)) => (rem' = rem /\ taskDeadlines' = taskDeadlines)

\* C28: on a timeline day that is a Saturday, a Sunday or a holiday no task's
\* remaining effort decreases and no completion date is recorded, in either
\* pass, also with absorbing pools and a surplus on that day
C28_NoWorkOnDaysOff == [][NoWorkDone]_vars


(***************************************************************************)
(* The cache of the resolved series.                                       *)
(***************************************************************************)
\* what a freshly constructed pool with the same initParams and the current
\* bounds resolves
FreshSeries == ResolveOn(rcons, "resources", plStart, plEnd)

ReadIsFresh == rpc = "read" => (lastRead = FreshSeries /\ pcache.series = lastRead)

\* a read that follows a read, the bounds unchanged
RereadKeepsCache ==
    (rpc = "read" /\ rpc' = "read") => (pcache' = pcache /\ lastRead' = lastRead)

\* C29: after any sequence of timeline-bound changes and reads on a pool, the
\* series a read returns is the series a freshly constructed pool with the
\* same configuration and the current bounds would resolve; a read with
\* unchanged bounds returns the cached series and does not change it
C29_ResolvedCache == []ReadIsFresh /\ [][RereadKeepsCache]_vars

\* a read after the start was moved, on a piecewise configuration whose
\* values differ inside the new bounds
C29_Witness ==
    /\ rpc = "read"
    /\ plStart > 0
    /\ plStart < plEnd
    /\ lastRead[plStart] # lastRead[plEnd]
    /\ lastRead[plStart] # NaN


(***************************************************************************)
(* The series of a run after the scenario's bounds were changed.           *)
(***************************************************************************)
\* scheduleTasks has been called since the bounds were last set
RunOnCurrentBounds == synced /\ runs >= 1

SeriesOnTimeline ==
    /\ DOMAIN roadmap = Timeline
    /\ DOMAIN remainingRes = Timeline
    /\ DOMAIN MaxResources = Timeline
    /\ \A p \in ProjSet :
        /\ DOMAIN schedRes[p] = Timeline
        /\ DOMAIN Resources(p) = Timeline
        /\ DOMAIN Efficiency(p) = Timeline
        /\ DOMAIN Basecost(p) = Timeline

\* C30: when the scenario's timeline end is changed after an earlier run and
\* scheduleTasks is called again, every series the run uses (the pools'
\* capacity, base cost and efficiency, the maximum-resources series, the
\* remaining-surplus series and the Roadmap) is indexed by exactly the days
\* of the new Timeline
C30_BoundsReResolved == RunOnCurrentBounds => SeriesOnTimeline


(***************************************************************************)
(* The inputs of a run.                                                    *)
(***************************************************************************)
\* a step of a scheduling run, from the call of scheduleTasks on
RunStep == runs' # runs \/ pc \notin {"Idle", "Done"}

InputsKept ==
    RunStep =>
        /\ cfg'.tasks = cfg.tasks
        /\ cfg'.nGroups = cfg.nGroups
        /\ \A p \in Pools :
            /\ cfg'.pools[p].res = cfg.pools[p].res
            /\ cfg'.pools[p].eff = cfg.pools[p].eff

C32_GroupDeadlineComplete ==
    pc = "Done" =>
        \A g \in Groups : \A p \in ProjSet :
            groupDeadlines[g][p] # NoDate =>
                \A t \in Tasks :
                    (cfg.tasks[t].group = g /\ Effort(t, p) # 0) =>
                        /\ taskDeadlines[t][p] # NoDate
                        /\ taskDeadlines[t][p] <= groupDeadlines[g][p]


(***************************************************************************)
(* Draining of the backlogs.                                               *)
(***************************************************************************)
Assigned(t) == \E p \in ProjSet : Effort(t, p) # 0

\* task b must have left all backlogs before task a may be worked
MustPrecede(b, a) ==
    Assigned(b) /\ \E p \in ProjSet : Effort(a, p) # 0 /\ Contains(Number(b), Pattern(a, p))

\* no task waits for itself and the tasks can be put in an order in which
\* every task comes after the tasks it waits for
AcyclicBlocking ==
    /\ \A t \in Tasks : ~MustPrecede(t, t)
    /\ \E f \in [Tasks -> Tasks] :
        /\ \A a, b \in Tasks : a # b => f[a] # f[b]
        /\ \A a, b \in Tasks : MustPrecede(b, a) => f[b] < f[a]

\* every pool has capacity on every working day, at efficiency 1
CapacityEveryWorkingDay ==
    \A p \in ProjSet : \A d \in Timeline :
        ~NoWork(d) => (Resources(p)[d] >= Unit /\ Efficiency(p)[d] = Unit)

\* one labor-day of work per working day would cover the effort of all tasks
TimelineCoversEffort ==
    SumOver([t \in Tasks |-> SumOver([p \in ProjSet |-> Effort(t, p)], ProjSet)], Tasks)
        <= Unit * Cardinality({d \in Timeline : ~NoWork(d)})

Drainable == CapacityEveryWorkingDay /\ TimelineCoversEffort /\ AcyclicBlocking

AllCompleted ==
    /\ pc = "Done"
    /\ \A p \in ProjSet :
        /\ Len(backlogs[p]) = 0
        /\ \A t \in Tasks : Effort(t, p) # 0 => taskDeadlines[t][p] # NoDate

\* C33: if every pool has positive capacity on every working day, the
\* Timeline is long enough for the total effort and the blocking relation is
\* acyclic with no task matching its own pattern, then every backlog
\* eventually becomes empty and every assigned task gets a completion date,
\* whatever the order of the backlog
C33_EventuallyDrained == Drainable => <>AllCompleted


(***************************************************************************)
(* One person per task.                                                    *)
(***************************************************************************)
InPass == pc \in {"FirstPass", "SecondPass"}

\* one nominal unit of labor: efficiency(day) * 1 of work
NominalUnit == Efficiency(CurPool)[dateIdx]

OneUnitPerStep ==
    InPass =>
        /\ \A t \in Tasks : passWork'[t] - passWork[t] <= NominalUnit
        /\ \A t, u \in Tasks :
              (passWork'[t] > passWork[t] /\ passWork'[u] > passWork[u]) => t = u

PlainPool ==
    /\ \A d \in Timeline : Efficiency(CurPool)[d] = Unit
    /\ \A t \in Tasks : Pattern(t, CurPool) = NoPattern

\* the pool's configured capacity is at most 1 on every day
CapacityAtMostOne == \A d \in Timeline : Resources(CurPool)[d] <= Unit

\* p's table rows in backlog order: u comes before t
Earlier(u, t) == u < t

PassStartCapacity ==
    schedRes[CurPool][dateIdx] + SumOver(passWork, Tasks)

\* a pass that has given no work yet is at the first backlog entry
CursorStartsAtHead ==
    (InPass /\ \A t \in Tasks : passWork[t] = 0) => backlogIdx = 0

\* in a pass started with a counter of at most 1 only the first backlog entry
\* receives work, and a backlog loses its first entry only
HeadOnly ==
    (InPass /\ PlainPool /\ PassStartCapacity <= Unit) =>
        /\ \A t \in Tasks :
              applied'[CurPool][t] > applied[CurPool][t] => t = Head(backlogs[CurPool])
        /\ backlogs'[CurPool] # backlogs[CurPool]
              => backlogs'[CurPool] = Tail(backlogs[CurPool])

=============================================================================
